---- MODULE Spec2Model ----
(***************************************************************************)
(* Model of scripts/keyword_research.py: the cached, multi-source keyword  *)
(* scoring pipeline (result cache, metrics fetcher with heuristic          *)
(* fallback, scorer, variation generator, command-line entry point), and   *)
(* of the entry points of its sibling tools, scripts/internal_linking.py   *)
(* and scripts/validate_structure.py.                                      *)
(*                                                                         *)
(* Conventions.                                                            *)
(*  - A Python str is a sequence of one-character strings.                 *)
(*  - Optional[x] is a sequence of length 0 (None) or 1 (the value).       *)
(*  - relevance_score is a float in the source; every value the source     *)
(*    computes is a multiple of 0.1, so the model keeps it in tenths       *)
(*    (an integer): 1000 stands for 100.0.                                 *)
(*  - cpc is kept in hundredths (cents).                                   *)
(*  - A timestamp is a number of days; datetime.isoformat/fromisoformat    *)
(*    are modelled by the tagged value they produce/accept.                *)
(***************************************************************************)
EXTENDS Integers, Sequences, FiniteSets, TLC

VARIABLES cache, stored, now, last, nops, procs, size

vars == <<cache, stored, now, last, nops, procs, size>>

(***************************************************************************)
(* Bounds of the model.                                                    *)
(***************************************************************************)
MaxOps == 2
MaxClock == 32

(***************************************************************************)
(* Program constants.                                                      *)
(***************************************************************************)
CACHE_TTL_DAYS == 30

(***************************************************************************)
(* Strings.                                                                *)
(***************************************************************************)
None == <<>>
Some(x) == <<x>>

\* a list comprehension: the function f on 1..n as a sequence
List(f) == SubSeq(f, 1, Len(f))

LowerChar(c) == IF c = "A" THEN "a" ELSE IF c = "B" THEN "b" ELSE c

Lower(s) == List([i \in 1..Len(s) |-> LowerChar(s[i])])

IsSpace(c) == c = " "

RECURSIVE LStrip(_)
LStrip(s) == IF s # <<>> /\ IsSpace(Head(s)) THEN LStrip(Tail(s)) ELSE s

RECURSIVE RStrip(_)
RStrip(s) ==
    IF s # <<>> /\ IsSpace(s[Len(s)]) THEN RStrip(SubSeq(s, 1, Len(s) - 1)) ELSE s

Strip(s) == RStrip(LStrip(s))

\* len(s.split()): the number of maximal runs of non-whitespace characters
WordCount(s) ==
    Cardinality({i \in 1..Len(s) :
        /\ ~IsSpace(s[i])
        /\ (i = 1 \/ IsSpace(s[i - 1]))})

\* sub in s
Contains(s, sub) ==
    \E i \in 0..(Len(s) - Len(sub)) : SubSeq(s, i + 1, i + Len(sub)) = sub

Digit(d) == <<"0", "1", "2", "3", "4", "5", "6", "7", "8", "9">>[d + 1]

RECURSIVE NatToStr(_)
NatToStr(n) == IF n < 10 THEN <<Digit(n)>> ELSE NatToStr(n \div 10) \o <<Digit(n % 10)>>

\* str(limit) inside the f-string
IntToStr(n) == IF n < 0 THEN <<"-">> \o NatToStr(0 - n) ELSE NatToStr(n)

\* seq[:n] with Python's meaning of a negative n
Take(seq, n) ==
    IF n >= 0
    THEN SubSeq(seq, 1, IF n < Len(seq) THEN n ELSE Len(seq))
    ELSE SubSeq(seq, 1, IF Len(seq) + n > 0 THEN Len(seq) + n ELSE 0)

sBest == <<"b", "e", "s", "t">>
sHowTo == <<"h", "o", "w", " ", "t", "o">>
sWhatIs == <<"w", "h", "a", "t", " ", "i", "s">>
sGuideTo == <<"g", "u", "i", "d", "e", " ", "t", "o">>
sTipsFor == <<"t", "i", "p", "s", " ", "f", "o", "r">>
sGuide == <<"g", "u", "i", "d", "e">>
sTips == <<"t", "i", "p", "s">>
sForBeginners == <<"f", "o", "r", " ", "b", "e", "g", "i", "n", "n", "e", "r", "s">>
sExplained == <<"e", "x", "p", "l", "a", "i", "n", "e", "d">>
s2024 == <<"2", "0", "2", "4">>
sWhy == <<"w", "h", "y">>
sVs == <<"v", "s">>
sKeyword == <<"k", "e", "y", "w", "o", "r", "d">>

Sp(a, b) == a \o <<" ">> \o b

(***************************************************************************)
(* Variation generator and heuristic estimators.                           *)
(***************************************************************************)
prefixes == <<sBest, sHowTo, sWhatIs, sGuideTo, sTipsFor>>
suffixes == <<sGuide, sTips, sForBeginners, sExplained, s2024>>

\* variant of _generate_variations: the suffix variations before the prefix ones
_generate_variations_SuffixFirst(topic) ==
    Take(<<topic>>
         \o [i \in 1..Len(suffixes) |-> Sp(topic, suffixes[i])]
         \o [i \in 1..Len(prefixes) |-> Sp(prefixes[i], topic)]
         \o <<Sp(Sp(sBest, topic), sTips), Sp(sHowTo, topic)>>, 15)

_generate_variations(topic) ==
    Take(<<topic>>
         \o [i \in 1..Len(prefixes) |-> Sp(prefixes[i], topic)]
         \o [i \in 1..Len(suffixes) |-> Sp(topic, suffixes[i])]
         \o <<Sp(Sp(sBest, topic), sTips), Sp(sHowTo, topic)>>, 15)

_estimate_volume(keyword) ==
    IF WordCount(keyword) <= 2 THEN 5000
    ELSE IF WordCount(keyword) = 3 THEN 2000
    ELSE 800

\* variant of _estimate_difficulty: the easiest bucket starts at five words
_estimate_difficulty_FromFive(keyword) ==
    IF WordCount(keyword) >= 5 THEN 35
    ELSE IF WordCount(keyword) >= 3 THEN 55
    ELSE 70

_estimate_difficulty(keyword) ==
    IF WordCount(keyword) >= 4 THEN 35
    ELSE IF WordCount(keyword) = 3 THEN 55
    ELSE 70

_generate_related(keyword, original) ==
    Take(<<Sp(sWhatIs, original), Sp(sHowTo, original), Sp(sWhy, original)>>
         \o (IF Contains(original, <<" ">>) THEN <<Sp(original, sVs)>> ELSE <<>>), 5)

\* KeywordData(keyword, search_volume, keyword_difficulty, related_keywords,
\* relevance_score); relevance_score in tenths
KeywordData(kw, vol, diff, rel, score) ==
    [keyword |-> kw, search_volume |-> vol, keyword_difficulty |-> diff,
     related_keywords |-> rel, relevance_score |-> score]

\* variant of FallbackRelevance: a score that is never negative
FallbackRelevance_Clamped(i) ==
    IF 100 - (i * 10) < 0 THEN 0 ELSE 10 * (100 - (i * 10))

\* relevance_score = 100 - (i * 10) for the 0-based position i, in tenths
FallbackRelevance(i) == 10 * (100 - (i * 10))

\* the record of the loop body for the variation at 0-based position i
FallbackRecord(variation, topic, i) ==
    KeywordData(variation,
                _estimate_volume(variation),
                _estimate_difficulty(variation),
                _generate_related(variation, topic),
                FallbackRelevance(i))

_fallback_research(topic, limit) ==
    LET variations == Take(_generate_variations(topic), limit)
    IN  List([k \in 1..Len(variations) |-> FallbackRecord(variations[k], topic, k - 1)])

(***************************************************************************)
(* Result cache: one file per key under CACHE_DIR.                         *)
(*                                                                         *)
(* A file is modelled by what json.load makes of its text:                 *)
(*   kind  "garbage"   the text is not JSON (also a truncated write)       *)
(*         "nonobject" JSON, but not an object (array, string, number,     *)
(*                     null)                                               *)
(*         "object"    a JSON object with the members below                *)
(*   ts    the member 'timestamp': missing, an ISO string of a day, a      *)
(*         string that is no ISO date ("text"), or a JSON number           *)
(*   kws   the member 'keywords': missing, or a list of objects            *)
(*   topic, limit  the members 'topic' and 'limit'                         *)
(* An object of the list 'keywords' carries the five members of            *)
(* KeywordData ("exact"), lacks one ("missing") or has one more ("extra"). *)
(***************************************************************************)
Md5(s) == [md5 |-> s]

\* variant of _get_cache_key: the topic and the limit joined without "_"
_get_cache_key_Unseparated(topic, limit) ==
    Md5(Strip(Lower(topic)) \o IntToStr(limit))

_get_cache_key(topic, limit) == Md5(Strip(Lower(topic)) \o <<"_">> \o IntToStr(limit))

\* variant of to_dict: the relevance score written as a whole number
to_dict_Rounded(kw) ==
    [fields |-> "exact",
     keyword |-> kw.keyword,
     search_volume |-> kw.search_volume,
     keyword_difficulty |-> kw.keyword_difficulty,
     related_keywords |-> kw.related_keywords,
     relevance_score |-> 10 * (kw.relevance_score \div 10)]

\* KeywordData.to_dict (dataclasses.asdict), as json.dump writes it
to_dict(kw) ==
    [fields |-> "exact",
     keyword |-> kw.keyword,
     search_volume |-> kw.search_volume,
     keyword_difficulty |-> kw.keyword_difficulty,
     related_keywords |-> kw.related_keywords,
     relevance_score |-> kw.relevance_score]

\* KeywordData(**kw): a TypeError unless the members are exactly the five fields
FromDictOk(d) == d.fields = "exact"

FromDict(d) ==
    KeywordData(d.keyword, d.search_volume, d.keyword_difficulty,
                d.related_keywords, d.relevance_score)

\* datetime.now().isoformat()
IsoFormat(day) == [kind |-> "iso", day |-> day]

\* the dictionary cache_data, as json.dump writes it
CacheData(topic, limit, keywords, clock) ==
    [kind |-> "object",
     ts |-> IsoFormat(clock),
     kws |-> [kind |-> "list",
              items |-> List([i \in 1..Len(keywords) |-> to_dict(keywords[i])])],
     topic |-> topic,
     limit |-> limit]

\* what is left of a file opened with mode 'w' when json.dump fails
TruncatedFile ==
    [kind |-> "garbage",
     ts |-> [kind |-> "missing", day |-> 0],
     kws |-> [kind |-> "missing", items |-> <<>>],
     topic |-> <<>>,
     limit |-> 0]

NoFiles == [k \in {} |-> TruncatedFile]

Without(f, key) == [k \in (DOMAIN f) \ {key} |-> f[k]]

With(f, key, v) == [k \in (DOMAIN f) \cup {key} |-> IF k = key THEN v ELSE f[k]]

\* variant of Unlink: the file is left in place
Unlink_Skipped(files, key) == files

\* cache_file.unlink()
Unlink(files, key) == Without(files, key)

\* variant of OnReadError: the handler deletes the file it could not read
OnReadError_Delete(files, key) == Without(files, key)

\* the handler `except (json.JSONDecodeError, KeyError, ValueError, IOError)`:
\* it reports the error and leaves the file where it is
OnReadError(files, key) == files

\* variant of Expired: an entry of exactly CACHE_TTL_DAYS days is expired
Expired_AtTtl(cached_at, clock) == clock - cached_at >= CACHE_TTL_DAYS

\* cache_age > timedelta(days=CACHE_TTL_DAYS)
Expired(cached_at, clock) == clock - cached_at > CACHE_TTL_DAYS

\* get_cached_keywords on the store `files` at time `clock`:
\* the value returned, the exception that escapes, and the store afterwards
GetCached(files, topic, limit, clock) ==
    LET key == _get_cache_key(topic, limit)
        miss == [result |-> None, raised |-> "none", hit |-> FALSE, files |-> files]
        caught == [miss EXCEPT !.files = OnReadError(files, key)]
        raise(e) == [result |-> None, raised |-> e, hit |-> FALSE, files |-> files]
    IN  IF key \notin DOMAIN files THEN miss
        ELSE LET data == files[key] IN
             IF data.kind = "garbage" THEN caught        \* json.JSONDecodeError
             ELSE IF data.kind = "nonobject" THEN raise("TypeError")  \* data['timestamp']
             ELSE IF data.ts.kind = "missing" THEN caught  \* KeyError
             ELSE IF data.ts.kind = "number" THEN raise("TypeError")  \* fromisoformat
             ELSE IF data.ts.kind = "text" THEN caught   \* ValueError
             ELSE IF Expired(data.ts.day, clock)
                  THEN [miss EXCEPT !.files = Unlink(files, key)]
             ELSE IF data.kws.kind = "missing" THEN caught  \* KeyError
             ELSE IF \E i \in 1..Len(data.kws.items) : ~FromDictOk(data.kws.items[i])
                  THEN raise("TypeError")                \* KeywordData(**kw)
             ELSE [result |-> Some(List([i \in 1..Len(data.kws.items) |->
                                             FromDict(data.kws.items[i])])),
                   raised |-> "none", hit |-> TRUE, files |-> files]

\* save_keywords_to_cache: io is what the file system does with the write
\*   "ok"          the file is written
\*   "open_fails"  open() (or mkdir) raises IOError: nothing is written
\*   "write_fails" json.dump raises IOError after open() truncated the file
SaveToCache(files, topic, limit, keywords, clock, io) ==
    LET key == _get_cache_key(topic, limit)
    IN  IF io = "ok" THEN With(files, key, CacheData(topic, limit, keywords, clock))
        ELSE IF io = "write_fails" THEN With(files, key, TruncatedFile)
        ELSE files

(***************************************************************************)
(* The remote response, as response.json() returns it.                     *)
(*                                                                         *)
(*   data  kind "dict" or "other" (a JSON body that is no object)          *)
(*         status_code, tasks (missing, null or a list)                    *)
(*   task  kind "dict" or "other"; status_code; result (missing, a list,   *)
(*         a single object "dict", or anything else "other")               *)
(*   item  kind "dict" or "other"; has[f] says whether member f is         *)
(*         "present", "null" or "missing"; extra: the object has members   *)
(*         the parser does not read (monthly_searches, ...)                *)
(***************************************************************************)
ItemFields ==
    {"keyword", "search_volume", "competition", "competition_index", "cpc",
     "related_keywords"}

\* item.get(f) is not None
Given(item, f) == item.has[f] = "present"

\* `not item` for a dict: it has no members at all
EmptyDict(item) == (\A f \in ItemFields : item.has[f] = "missing") /\ ~item.extra

sHIGH == <<"H", "I", "G", "H">>
sMEDIUM == <<"M", "E", "D", "I", "U", "M">>
sLOW == <<"L", "O", "W">>

UpperChar(c) ==
    CASE c = "h" -> "H" [] c = "i" -> "I" [] c = "g" -> "G" [] c = "l" -> "L"
      [] c = "o" -> "O" [] c = "w" -> "W" [] c = "a" -> "A" [] c = "b" -> "B"
      [] c = "m" -> "M" [] c = "e" -> "E" [] c = "d" -> "D" [] c = "u" -> "U"
      [] OTHER -> c

Upper(s) == List([i \in 1..Len(s) |-> UpperChar(s[i])])

\* competition_map.get(competition_str, 50)
CompetitionValue(label) ==
    IF label = sHIGH THEN 75
    ELSE IF label = sMEDIUM THEN 50
    ELSE IF label = sLOW THEN 25
    ELSE 50

Min(a, b) == IF a < b THEN a ELSE b

\* variant of DerivedDifficulty: the sum rounded to the nearest integer
DerivedDifficulty_Rounded(competition_value, cents) ==
    (14 * competition_value + Min(cents, 600) + 10) \div 20

\* int(competition_value * 0.7 + min(cpc * 5, 30)) with cpc in hundredths:
\* the sum is (14 * competition_value + min(cents, 600)) / 20, and int()
\* truncates
DerivedDifficulty(competition_value, cents) ==
    (14 * competition_value + Min(cents, 600)) \div 20

_calculate_difficulty(item) ==
    IF Given(item, "competition_index") THEN item.competition_index
    ELSE LET competition_str ==
                 Upper(IF Given(item, "competition") THEN item.competition ELSE <<>>)
             cpc == IF Given(item, "cpc") THEN item.cpc ELSE 0
         IN  Min(DerivedDifficulty(CompetitionValue(competition_str), cpc), 100)

\* item.get('related_keywords', [])[:5]; None[:5] is a TypeError
ExtractRelatedRaises(item) == item.has["related_keywords"] = "null"

_extract_related(item) ==
    IF Given(item, "related_keywords") THEN Take(item.related_keywords, 5) ELSE <<>>

\* item.get('keyword', '').lower(); None.lower() is an AttributeError
RelevanceRaises(item) == item.has["keyword"] = "null"

\* variant of VolumeScore: the thresholds are inclusive
VolumeScore_Inclusive(volume) ==
    IF volume >= 10000 THEN 30
    ELSE IF volume >= 1000 THEN 20
    ELSE IF volume >= 100 THEN 10
    ELSE 0

VolumeScore(volume) ==
    IF volume > 10000 THEN 30
    ELSE IF volume > 1000 THEN 20
    ELSE IF volume > 100 THEN 10
    ELSE 0

MatchScore(keyword, topic_lower) ==
    IF keyword = topic_lower THEN 40
    ELSE IF Contains(keyword, topic_lower) \/ Contains(topic_lower, keyword) THEN 30
    ELSE 10

\* in tenths: score = volume factor + (100 - difficulty) * 0.3 + match factor,
\* then min(score, 100.0)
_calculate_relevance(item, original_topic) ==
    LET volume == IF Given(item, "search_volume") THEN item.search_volume ELSE 0
        difficulty == _calculate_difficulty(item)
        keyword == Lower(IF item.has["keyword"] = "missing" THEN <<>> ELSE item.keyword)
    IN  Min(10 * VolumeScore(volume) + 3 * (100 - difficulty)
              + 10 * MatchScore(keyword, Lower(original_topic)),
            1000)

\* the KeywordData built from one result item
ItemRecord(item, topic) ==
    KeywordData(IF item.has["keyword"] = "missing" THEN topic ELSE item.keyword,
                IF Given(item, "search_volume") THEN item.search_volume ELSE 0,
                _calculate_difficulty(item),
                _extract_related(item),
                _calculate_relevance(item, topic))

\* keywords.sort(key=lambda x: x.relevance_score, reverse=True): stable
RECURSIVE InsertByRelevance(_, _)
InsertByRelevance(sorted, kw) ==
    IF sorted = <<>> THEN <<kw>>
    ELSE IF Head(sorted).relevance_score >= kw.relevance_score
         THEN <<Head(sorted)>> \o InsertByRelevance(Tail(sorted), kw)
         ELSE <<kw>> \o sorted

RECURSIVE SortByRelevance(_)
SortByRelevance(keywords) ==
    IF keywords = <<>> THEN <<>>
    ELSE InsertByRelevance(SortByRelevance(SubSeq(keywords, 1, Len(keywords) - 1)),
                           keywords[Len(keywords)])

\* the loop `for item in results[:limit]`: the records appended, and whether an
\* exception ended the loop
RECURSIVE ParseItems(_, _, _)
ParseItems(items, topic, acc) ==
    IF items = <<>> THEN [keywords |-> acc, raised |-> FALSE]
    ELSE LET item == Head(items) IN
         IF item.kind # "dict" \/ EmptyDict(item)
         THEN ParseItems(Tail(items), topic, acc)
         ELSE IF ExtractRelatedRaises(item) \/ RelevanceRaises(item)
              THEN [keywords |-> acc, raised |-> TRUE]
              ELSE ParseItems(Tail(items), topic, Append(acc, ItemRecord(item, topic)))

\* task.get('result', []) as the list `results`
TaskResults(task) ==
    IF task.result.kind \in {"list", "dict"} THEN task.result.items ELSE <<>>

\* variant of ParseTasks: a task's own status_code is not looked at
RECURSIVE ParseTasks_AnyStatus(_, _, _)
ParseTasks_AnyStatus(tasks, topic, limit) ==
    IF tasks = <<>> THEN <<>>
    ELSE LET task == Head(tasks) IN
         IF task.kind # "dict" THEN <<>>
         ELSE IF TaskResults(task) = <<>>
              THEN ParseTasks_AnyStatus(Tail(tasks), topic, limit)
              ELSE LET parsed == ParseItems(Take(TaskResults(task), limit), topic, <<>>)
                   IN  IF parsed.raised THEN parsed.keywords
                       ELSE SortByRelevance(parsed.keywords)

\* the loop `for task in tasks`: failed and empty tasks are skipped, the first
\* task with results is parsed, and the loop ends there
RECURSIVE ParseTasks(_, _, _)
ParseTasks(tasks, topic, limit) ==
    IF tasks = <<>> THEN <<>>
    ELSE LET task == Head(tasks) IN
         IF task.kind # "dict" THEN <<>>                 \* AttributeError, caught
         ELSE IF task.status_code # 20000 \/ TaskResults(task) = <<>>
              THEN ParseTasks(Tail(tasks), topic, limit)
              ELSE LET parsed == ParseItems(Take(TaskResults(task), limit), topic, <<>>)
                   IN  IF parsed.raised THEN parsed.keywords
                       ELSE SortByRelevance(parsed.keywords)

\* the top-level status_code is only reported; it does not end the parse
_parse_api_response(data, topic, limit) ==
    IF data.kind # "dict" THEN <<>>                      \* AttributeError, caught
    ELSE IF data.tasks.kind # "list" \/ data.tasks.items = <<>> THEN <<>>
    ELSE ParseTasks(data.tasks.items, topic, limit)

(***************************************************************************)
(* The metrics fetcher.                                                    *)
(*                                                                         *)
(* env is what the environment does to one call of _api_research:          *)
(*   import_ok  `import requests` succeeds                                 *)
(*   exc        the exception requests.post, raise_for_status or           *)
(*              response.json raises: "Timeout", "HTTPError",              *)
(*              "ConnectionError", "ValueError" (a body that is no JSON),  *)
(*              "Exception" (anything else), or "none"                     *)
(*   data       the decoded body when exc = "none"                         *)
(***************************************************************************)
\* len(api_key.split(':'))
SplitParts(api_key) == 1 + Cardinality({i \in 1..Len(api_key) : api_key[i] = ":"})

\* variant of SplitRaises: only the first ':' separates, as split(':', 1)
SplitRaises_FirstColon(api_key) == \A i \in 1..Len(api_key) : api_key[i] # ":"

\* login, password = self.api_key.split(':') raises ValueError
SplitRaises(api_key) == SplitParts(api_key) # 2

\* payload "keywords": variations[:limit * 2]
RequestKeywords(topic, limit) == Take(_generate_variations(topic), limit * 2)

\* variant of _api_research: the Timeout handler returns an empty list
_api_research_EmptyOnTimeout(topic, limit, api_key, env) ==
    LET sent == RequestKeywords(topic, limit)
        fallback(why, req) ==
            [keywords |-> _fallback_research(topic, limit),
             requested |-> req, posts |-> IF req THEN 1 ELSE 0,
             source |-> "heuristic", caught |-> why,
             sent |-> IF req THEN sent ELSE <<>>]
    IN  IF ~env.import_ok THEN fallback("ImportError", FALSE)
        ELSE IF SplitRaises(api_key) THEN fallback("ValueError", FALSE)
        ELSE IF env.exc = "Timeout"
             THEN [keywords |-> <<>>, requested |-> TRUE, posts |-> 1, source |-> "heuristic",
                   caught |-> "Timeout", sent |-> sent]
        ELSE IF env.exc # "none" THEN fallback(env.exc, TRUE)
        ELSE [keywords |-> _parse_api_response(env.data, topic, limit),
              requested |-> TRUE, posts |-> 1, source |-> "remote", caught |-> "none",
              sent |-> sent]

\* variant of _api_research: a request that raised is sent a second time
_api_research_Retry(topic, limit, api_key, env) ==
    LET sent == RequestKeywords(topic, limit)
        fallback(why, n) ==
            [keywords |-> _fallback_research(topic, limit),
             requested |-> n > 0, posts |-> n, source |-> "heuristic",
             caught |-> why, sent |-> IF n > 0 THEN sent ELSE <<>>]
    IN  IF ~env.import_ok THEN fallback("ImportError", 0)
        ELSE IF SplitRaises(api_key) THEN fallback("ValueError", 0)
        ELSE IF env.exc # "none" THEN fallback(env.exc, 2)
        ELSE [keywords |-> _parse_api_response(env.data, topic, limit),
              requested |-> TRUE, posts |-> 1, source |-> "remote",
              caught |-> "none", sent |-> sent]

\* the value returned, whether and how often requests.post was called, and the
\* branch taken
_api_research(topic, limit, api_key, env) ==
    LET sent == RequestKeywords(topic, limit)
        fallback(why, req) ==
            [keywords |-> _fallback_research(topic, limit),
             requested |-> req, posts |-> IF req THEN 1 ELSE 0,
             source |-> "heuristic", caught |-> why,
             sent |-> IF req THEN sent ELSE <<>>]
    IN  IF ~env.import_ok THEN fallback("ImportError", FALSE)
        ELSE IF SplitRaises(api_key) THEN fallback("ValueError", FALSE)
        ELSE IF env.exc # "none" THEN fallback(env.exc, TRUE)
        ELSE [keywords |-> _parse_api_response(env.data, topic, limit),
              requested |-> TRUE, posts |-> 1, source |-> "remote", caught |-> "none",
              sent |-> sent]

\* bool(self.api_key) for the Optional[str] the resolver returned
api_available(api_key) == api_key # None /\ api_key[1] # <<>>

\* variant of OnWriteError: the error of the write is raised again
OnWriteError_Propagates(io) == IF io = "ok" THEN "none" ELSE "IOError"

\* the handler `except IOError` of save_keywords_to_cache: the error is
\* reported, and nothing escapes the call
OnWriteError(io) == "none"

\* variant of research_keywords: a run served from the cache writes the entry
\* again, with the time of the read
research_keywords_RefreshOnHit(files, topic, limit, api_key, env, clock, io) ==
    LET cached == GetCached(files, topic, limit, clock)
        saved == OnWriteError(io)
        fetched == IF api_available(api_key)
                   THEN _api_research(topic, limit, api_key[1], env)
                   ELSE [keywords |-> _fallback_research(topic, limit),
                         requested |-> FALSE, posts |-> 0, source |-> "heuristic",
                         caught |-> "none", sent |-> <<>>]
    IN  IF cached.raised # "none"
        THEN [result |-> None, raised |-> cached.raised, files |-> cached.files,
              afterGet |-> cached.files, hit |-> FALSE, requested |-> FALSE, posts |-> 0,
              source |-> "none", caught |-> "none", wrote |-> "none", sent |-> <<>>]
        ELSE IF cached.result # None /\ cached.result[1] # <<>>
        THEN [result |-> cached.result, raised |-> "none",
              files |-> SaveToCache(cached.files, topic, limit, cached.result[1],
                                    clock, "ok"),
              afterGet |-> cached.files, hit |-> TRUE, requested |-> FALSE, posts |-> 0,
              source |-> "cache", caught |-> "none", wrote |-> "none", sent |-> <<>>]
        ELSE IF fetched.keywords # <<>> /\ saved # "none"
        THEN [result |-> None, raised |-> saved,
              files |-> SaveToCache(cached.files, topic, limit,
                                    fetched.keywords, clock, io),
              afterGet |-> cached.files, hit |-> FALSE,
              requested |-> fetched.requested, posts |-> fetched.posts,
              source |-> fetched.source,
              caught |-> fetched.caught, wrote |-> io, sent |-> fetched.sent]
        ELSE [result |-> Some(fetched.keywords), raised |-> "none",
              files |-> IF fetched.keywords # <<>>
                        THEN SaveToCache(cached.files, topic, limit,
                                         fetched.keywords, clock, io)
                        ELSE cached.files,
              afterGet |-> cached.files, hit |-> FALSE,
              requested |-> fetched.requested, posts |-> fetched.posts,
              source |-> fetched.source,
              caught |-> fetched.caught,
              wrote |-> IF fetched.keywords # <<>> THEN io ELSE "none",
              sent |-> fetched.sent]

\* research_keywords: the list returned, the exception that escapes, the store
\* afterwards, and what happened on the way
research_keywords(files, topic, limit, api_key, env, clock, io) ==
    LET cached == GetCached(files, topic, limit, clock)
        saved == OnWriteError(io)
        fetched == IF api_available(api_key)
                   THEN _api_research(topic, limit, api_key[1], env)
                   ELSE [keywords |-> _fallback_research(topic, limit),
                         requested |-> FALSE, posts |-> 0, source |-> "heuristic",
                         caught |-> "none", sent |-> <<>>]
    IN  IF cached.raised # "none"
        THEN [result |-> None, raised |-> cached.raised, files |-> cached.files,
              afterGet |-> cached.files, hit |-> FALSE, requested |-> FALSE, posts |-> 0,
              source |-> "none", caught |-> "none", wrote |-> "none", sent |-> <<>>]
        ELSE IF cached.result # None /\ cached.result[1] # <<>>
        THEN [result |-> cached.result, raised |-> "none", files |-> cached.files,
              afterGet |-> cached.files, hit |-> TRUE, requested |-> FALSE, posts |-> 0,
              source |-> "cache", caught |-> "none", wrote |-> "none", sent |-> <<>>]
        ELSE IF fetched.keywords # <<>> /\ saved # "none"
        THEN [result |-> None, raised |-> saved,
              files |-> SaveToCache(cached.files, topic, limit,
                                    fetched.keywords, clock, io),
              afterGet |-> cached.files, hit |-> FALSE,
              requested |-> fetched.requested, posts |-> fetched.posts,
              source |-> fetched.source,
              caught |-> fetched.caught, wrote |-> io, sent |-> fetched.sent]
        ELSE [result |-> Some(fetched.keywords), raised |-> "none",
              files |-> IF fetched.keywords # <<>>
                        THEN SaveToCache(cached.files, topic, limit,
                                         fetched.keywords, clock, io)
                        ELSE cached.files,
              afterGet |-> cached.files, hit |-> FALSE,
              requested |-> fetched.requested, posts |-> fetched.posts,
              source |-> fetched.source,
              caught |-> fetched.caught,
              wrote |-> IF fetched.keywords # <<>> THEN io ELSE "none",
              sent |-> fetched.sent]

\* variant of ExitCode: an empty list is not reported as a failure
ExitCode_ZeroOnEmpty(resolver_raised, outcome) ==
    IF resolver_raised THEN 1
    ELSE IF outcome.raised # "none" THEN 1
    ELSE 0

\* main: the process exit code. sys.exit(1) on an empty list and on an exception
\* caught by `except Exception`; an exception raised by the resolver, before the
\* try block, ends the process with code 1 as well
ExitCode(resolver_raised, outcome) ==
    IF resolver_raised THEN 1
    ELSE IF outcome.raised # "none" THEN 1
    ELSE IF outcome.result[1] = <<>> THEN 1
    ELSE 0

(***************************************************************************)
(* Credential resolver.                                                    *)
(*                                                                         *)
(* A candidate is a Python str. Base64 works on the ASCII codes of the     *)
(* printable characters; the candidates of the model decode to printable   *)
(* ASCII or to bytes that are no UTF-8 text.                               *)
(***************************************************************************)
\* the Base64 alphabet, values 0..63
B64Alphabet ==
    <<
      "A", "B", "C", "D", "E", "F", "G", "H", "I", "J", "K", "L", "M", "N", "O", "P",
      "Q", "R", "S", "T", "U", "V", "W", "X", "Y", "Z", "a", "b", "c", "d", "e", "f",
      "g", "h", "i", "j", "k", "l", "m", "n", "o", "p", "q", "r", "s", "t", "u", "v",
      "w", "x", "y", "z", "0", "1", "2", "3", "4", "5", "6", "7", "8", "9", "+", "/">>

\* the printable ASCII characters, codes 32..126 (codes 34, 92 and 96 by name)
Ascii ==
    <<
      " ", "!", "dquote", "#", "$", "%", "&", "'", "(", ")", "*", "+", ",", "-", ".", "/",
      "0", "1", "2", "3", "4", "5", "6", "7", "8", "9", ":", ";", "<", "=", ">", "?",
      "@", "A", "B", "C", "D", "E", "F", "G", "H", "I", "J", "K", "L", "M", "N", "O",
      "P", "Q", "R", "S", "T", "U", "V", "W", "X", "Y", "Z", "[", "backslash", "]", "^", "_",
      "backtick", "a", "b", "c", "d", "e", "f", "g", "h", "i", "j", "k", "l", "m", "n", "o",
      "p", "q", "r", "s", "t", "u", "v", "w", "x", "y", "z", "{", "|", "}", "~">>

IndexIn(table, c) == CHOOSE i \in 1..Len(table) : table[i] = c

Ord(c) == 31 + IndexIn(Ascii, c)

Chr(n) == Ascii[n - 31]

InTable(table, c) == \E i \in 1..Len(table) : table[i] = c

\* the number of "=" at the end of s
RECURSIVE Padding(_)
Padding(s) == IF s # <<>> /\ s[Len(s)] = "=" THEN 1 + Padding(SubSeq(s, 1, Len(s) - 1)) ELSE 0

\* base64.b64decode(s, validate=True) does not raise binascii.Error: whole
\* groups of four alphabet characters, the last one ending in at most two "="
B64Valid(s) ==
    /\ Len(s) % 4 = 0
    /\ Padding(s) <= 2
    /\ \A i \in 1..(Len(s) - Padding(s)) : InTable(B64Alphabet, s[i])

\* the three bytes of the group of four characters starting at position i
B64Group(s, i) ==
    LET v(k) == IF s[i + k] = "=" THEN 0 ELSE IndexIn(B64Alphabet, s[i + k]) - 1
        n == v(0) * 262144 + v(1) * 4096 + v(2) * 64 + v(3)
    IN  <<n \div 65536, (n \div 256) % 256, n % 256>>

\* the bytes base64.b64decode returns for a valid s
RECURSIVE B64Bytes(_, _)
B64Bytes(s, i) ==
    IF i > Len(s) THEN <<>>
    ELSE IF i + 3 = Len(s) THEN SubSeq(B64Group(s, i), 1, 3 - Padding(s))
    ELSE B64Group(s, i) \o B64Bytes(s, i + 4)

\* decoded_bytes.decode('utf-8') does not raise: every byte is ASCII (a byte
\* from 0x80 on is valid only inside a multi-byte sequence)
Utf8Ok(bytes) == \A i \in 1..Len(bytes) : bytes[i] < 128

Utf8Decode(bytes) == List([i \in 1..Len(bytes) |-> Chr(bytes[i])])

\* decode_base64_credentials for a str: None for a blank one, the decoded text
\* when the stripped string is Base64 of UTF-8 text (with or without ":"),
\* else the stripped string
decode_base64_credentials(encoded) ==
    IF encoded = <<>> \/ Strip(encoded) = <<>> THEN None
    ELSE LET stripped == Strip(encoded) IN
         IF B64Valid(stripped) /\ Utf8Ok(B64Bytes(stripped, 1))
         THEN Some(Utf8Decode(B64Bytes(stripped, 1)))
         ELSE Some(stripped)

\* `if api_key:` for an Optional[str]
Truthy(candidate) == candidate # None /\ candidate[1] # <<>>

\* get_api_key: the value returned, the exception that escapes, and the source
\* whose candidate was passed to the decode step
get_api_key(src) ==
    LET answer(candidate, from) ==
            [result |-> decode_base64_credentials(candidate), raised |-> "none",
             used |-> from]
        raise(e) == [result |-> None, raised |-> e, used |-> "config"]
        prompt == IF /\ src.interactive
                     /\ src.prompt.kind = "text"
                     /\ Strip(src.prompt.text) # <<>>
                  THEN answer(Strip(src.prompt.text), "prompt")
                  ELSE [result |-> None, raised |-> "none", used |-> "none"]
        key == src.config.api_key
    IN  IF Truthy(src.explicit) THEN answer(src.explicit[1], "explicit")
        ELSE IF Truthy(src.environ) THEN answer(src.environ[1], "environ")
        ELSE IF src.config.kind \in {"absent", "unreadable", "garbage"} THEN prompt
        ELSE IF src.config.kind = "nonobject" THEN raise("AttributeError")
        ELSE IF key.kind = "string" /\ key.text # <<>> THEN answer(key.text, "config")
        ELSE IF key.kind = "number" /\ key.number # 0 THEN raise("AttributeError")
        ELSE prompt

(***************************************************************************)
(* Inputs of the model.                                                    *)
(***************************************************************************)
sA == <<"a">>
sB == <<"b">>

\* record lists handed to save_keywords_to_cache directly
R1 == KeywordData(sA, 5000, 70, <<Sp(sWhy, sA), Sp(sA, sVs)>>, 1000)
R2 == KeywordData(sB, 0, 35, <<>>, 755)

RecordLists == {<<>>, <<R2, R1>>}

\* files found in the cache directory when the model starts
File(kind, tsKind, day, kwsKind, items) ==
    [kind |-> kind,
     ts |-> [kind |-> tsKind, day |-> day],
     kws |-> [kind |-> kwsKind, items |-> items],
     topic |-> sA,
     limit |-> 2]

PreFiles ==
    {File("garbage", "missing", 0, "missing", <<>>),
     File("nonobject", "missing", 0, "missing", <<>>),
     File("object", "missing", 0, "list", <<to_dict(R1)>>),
     File("object", "text", 0, "list", <<to_dict(R1)>>),
     File("object", "number", 0, "list", <<to_dict(R1)>>),
     File("object", "iso", 0, "missing", <<>>),
     File("object", "iso", 0, "list", <<[to_dict(R1) EXCEPT !.fields = "missing"]>>),
     File("object", "iso", 0, "list", <<to_dict(R2), [to_dict(R1) EXCEPT !.fields = "extra"]>>),
     File("object", "iso", 0, "list", <<>>),
     File("object", "iso", 0, "list", <<to_dict(R1), to_dict(R2)>>)}

\* result items of the remote response
FullItem ==
    [kind |-> "dict",
     has |-> [f \in ItemFields |-> "present"],
     keyword |-> sA,
     search_volume |-> 20000,
     competition |-> sHIGH,
     competition_index |-> 40,
     cpc |-> 150,
     related_keywords |-> <<Sp(sA, sTips)>>,
     extra |-> TRUE]

LabelItem ==
    [FullItem EXCEPT !.keyword = sB, !.search_volume = 500,
                     !.competition = <<"l", "o", "w">>,
                     !.has = [f \in ItemFields |->
                                 IF f \in {"competition_index", "related_keywords"}
                                 THEN "missing" ELSE "present"]]

SparseItem ==
    [FullItem EXCEPT !.has = [f \in ItemFields |->
                                 IF f = "keyword" THEN "missing"
                                 ELSE IF f \in {"search_volume", "cpc"} THEN "null"
                                 ELSE IF f = "competition" THEN "present"
                                 ELSE "missing"],
                     !.competition = <<"n", "/", "a">>]

NullRelatedItem == [FullItem EXCEPT !.has["related_keywords"] = "null"]

NotADict == [FullItem EXCEPT !.kind = "other"]

Task(status, resultKind, items) ==
    [kind |-> "dict", status_code |-> status,
     result |-> [kind |-> resultKind, items |-> items]]

Response(status, tasksKind, tasks) ==
    [kind |-> "dict", status_code |-> status,
     tasks |-> [kind |-> tasksKind, items |-> tasks]]

GoodResponse == Response(20000, "list", <<Task(20000, "list", <<LabelItem, FullItem>>)>>)

NoReply == Response(0, "missing", <<>>)

Responses ==
    {GoodResponse,
     Response(400, "missing", <<>>),
     Response(400, "list", <<Task(20000, "list", <<FullItem>>)>>),
     Response(20000, "list", <<>>),
     Response(20000, "null", <<>>),
     Response(20000, "list", <<Task(40001, "missing", <<>>)>>),
     Response(400, "list", <<Task(40001, "list", <<FullItem>>)>>),
     Response(20000, "list", <<Task(20000, "list", <<>>)>>),
     Response(200, "list", <<Task(40001, "list", <<LabelItem>>),
                            Task(20000, "dict", <<FullItem>>)>>),
     Response(20000, "list", <<Task(20000, "list", <<NotADict, SparseItem>>)>>),
     Response(20000, "list", <<Task(20000, "list", <<NullRelatedItem, FullItem>>)>>),
     Response(20000, "list", <<Task(20000, "list", <<LabelItem, FullItem,
                                                     NullRelatedItem>>)>>),
     [NoReply EXCEPT !.kind = "other"]}

RequestExceptions == {"Timeout", "HTTPError", "ConnectionError", "ValueError", "Exception"}

Env(import_ok, exc, data) == [import_ok |-> import_ok, exc |-> exc, data |-> data]

Quiet == Env(TRUE, "none", NoReply)

kPlain == <<"u">>
kGood == <<"u", ":", "p">>
kTwoColons == <<"u", ":", "p", ":", "q">>

Invocation(resolver_raised, api_key, topic, limit, env, io) ==
    [resolver_raised |-> resolver_raised, api_key |-> api_key, topic |-> topic,
     limit |-> limit, env |-> env, io |-> io]

\* command lines, with what the resolver and the environment do
Invocations ==
    {Invocation(TRUE, None, sA, 2, Quiet, "ok"),
     Invocation(FALSE, None, sA, 2, Quiet, "ok"),
     Invocation(FALSE, None, sA, 2, Quiet, "write_fails"),
     Invocation(FALSE, None, sA, 2, Quiet, "open_fails"),
     Invocation(FALSE, None, sA, 0, Quiet, "ok"),
     Invocation(FALSE, None, <<" ", "A">>, 2, Quiet, "ok"),
     Invocation(FALSE, Some(kPlain), sA, 2, Quiet, "ok"),
     Invocation(FALSE, Some(kTwoColons), sA, 2, Quiet, "ok"),
     Invocation(FALSE, Some(kGood), sA, 2, Env(FALSE, "none", NoReply), "ok"),
     Invocation(FALSE, Some(kGood), sA, 1, Env(TRUE, "none", GoodResponse), "ok"),
     Invocation(FALSE, Some(kGood), <<" ", "A">>, 2, Env(TRUE, "none", GoodResponse), "ok")}
    \cup {Invocation(FALSE, Some(kGood), sA, 2, Env(TRUE, e, NoReply), "ok") :
            e \in RequestExceptions}
    \cup {Invocation(FALSE, Some(kGood), sA, 2, Env(TRUE, "none", d), "ok") :
            d \in Responses}
    \cup {Invocation(FALSE, Some(kGood), sA, 3,
                     Env(TRUE, "none",
                         Response(20000, "list",
                                  <<Task(20000, "list", <<LabelItem, FullItem,
                                                          NullRelatedItem>>)>>)),
                     "ok")}

\* base64.b64encode of an ASCII string
RECURSIVE B64Encode(_)
B64Encode(s) ==
    IF s = <<>> THEN <<>>
    ELSE LET k == Min(Len(s), 3)
             b(i) == IF i <= k THEN Ord(s[i]) ELSE 0
             n == b(1) * 65536 + b(2) * 256 + b(3)
             c(d) == B64Alphabet[((n \div d) % 64) + 1]
         IN  <<c(262144), c(4096),
               IF k >= 2 THEN c(64) ELSE "=",
               IF k = 3 THEN c(1) ELSE "=">>
             \o B64Encode(SubSeq(s, k + 1, Len(s)))

\* candidate strings of the credential sources
cEncoded == <<"d", "T", "p", "w">>
cLong == <<"a", "b", ":", "c">>
cNoColon == <<"Y", "W", "J", "j">>
cBinary == <<"u", "s", "e", "r">>
cBlank == <<" ", " ">>

Candidates ==
    {kGood, cEncoded, <<" ">> \o cEncoded \o <<" ">>, <<" ">> \o kGood,
     cLong, B64Encode(cLong), cNoColon, cBinary, <<"a", "b", "c">>, kTwoColons,
     cBlank, <<>>}

\* the file config.json: absent, unreadable, no JSON, JSON that is no object,
\* or an object whose member 'api_key' is missing, null, a string or a number
ConfigKey(kind, text, number) == [kind |-> kind, text |-> text, number |-> number]

Config(kind, key) == [kind |-> kind, api_key |-> key]

NoConfig == Config("absent", ConfigKey("missing", <<>>, 0))

Configs ==
    {Config(k, ConfigKey("missing", <<>>, 0)) :
        k \in {"absent", "unreadable", "garbage", "nonobject", "object"}}
    \cup {Config("object", ConfigKey("null", <<>>, 0)),
          Config("object", ConfigKey("number", <<>>, 0)),
          Config("object", ConfigKey("number", <<>>, 12345))}
    \cup {Config("object", ConfigKey("string", t, 0)) : t \in {<<>>, cBlank, cEncoded, cLong}}

\* what getpass.getpass does: returns a text, is interrupted, or is unavailable
Prompt(kind, text) == [kind |-> kind, text |-> text]

Prompts ==
    {Prompt("unavailable", <<>>), Prompt("KeyboardInterrupt", <<>>),
     Prompt("EOFError", <<>>)}
    \cup {Prompt("text", t) : t \in {<<>>, cBlank, <<" ">> \o cEncoded, cNoColon}}

Sources(explicit, environ, config, interactive, prompt) ==
    [explicit |-> explicit, environ |-> environ, config |-> config,
     interactive |-> interactive, prompt |-> prompt]

NoSources == Sources(None, None, NoConfig, FALSE, Prompt("unavailable", <<>>))

(***************************************************************************)
(* State.                                                                  *)
(*   cache   the files of the cache directory, by key                      *)
(*   stored  for each file a save wrote in full and that still exists:     *)
(*           the arguments of that save and its time (history variable)    *)
(*   now     the clock, in days                                            *)
(*   last    the last call: its arguments, what it returned or raised,     *)
(*           and the cache before it                                       *)
(*   nops    the number of calls made                                      *)
(*   procs   the runs of research_keywords under way at the same time:     *)
(*           where each one is, what it fetched, and when it opened the    *)
(*           cache file                                                    *)
(*   size    the length in characters of the file those runs write         *)
(***************************************************************************)
TickSteps == {29, 30, 31}

CacheTopics == {sA, <<" ", "A">>, <<"a", "1">>}
CacheLimits == {1, 11}

Idle ==
    [op |-> "none", topic |-> <<>>, limit |-> 0, api_key |-> None, env |-> Quiet,
     io |-> "ok", given |-> <<>>, result |-> None, raised |-> "none", exit |-> 0,
     hit |-> FALSE, requested |-> FALSE, posts |-> 0, source |-> "none", caught |-> "none",
     wrote |-> "none", sent |-> <<>>, sources |-> NoSources, used |-> "none",
     pre |-> NoFiles, at |-> 0]

\* the history variable after a call on `key`: a file that is gone or was
\* overwritten loses its entry, a file written in full gets a new one
TrackStored(st, afterGet, key, wrote, topic, limit, keywords, clock) ==
    LET base == IF key \in DOMAIN afterGet THEN st ELSE Without(st, key)
    IN  IF wrote = "ok"
        THEN With(base, key, [topic |-> topic, limit |-> limit,
                              keywords |-> keywords, at |-> clock])
        ELSE IF wrote = "write_fails" THEN Without(base, key)
        ELSE base

NoStored == [k \in {} |-> [topic |-> <<>>, limit |-> 0, keywords |-> <<>>, at |-> 0]]

InitWith(files) ==
    /\ cache \in {NoFiles} \cup {With(NoFiles, _get_cache_key(sA, 2), f) : f \in files}
    /\ stored = NoStored
    /\ now = 0
    /\ last = Idle
    /\ nops = 0
    /\ procs = <<>>
    /\ size = 0

Init == InitWith(PreFiles)

\* time passes between two calls
Tick ==
    /\ \E d \in TickSteps : now + d <= MaxClock /\ now' = now + d
    /\ UNCHANGED <<cache, stored, last, nops, procs, size>>

\* a direct call of get_cached_keywords(topic, limit)
Get(topic, limit) ==
    \E out \in {GetCached(cache, topic, limit, now)},
       key \in {_get_cache_key(topic, limit)} :
        /\ nops < MaxOps
        /\ cache' = out.files
        /\ stored' = TrackStored(stored, out.files, key, "none", topic, limit, <<>>, now)
        /\ last' = [Idle EXCEPT !.op = "get", !.topic = topic, !.limit = limit,
                                !.result = out.result, !.raised = out.raised,
                                !.hit = out.hit, !.pre = cache, !.at = now]
        /\ nops' = nops + 1
        /\ UNCHANGED <<procs, size>>
        /\ UNCHANGED now

\* a direct call of save_keywords_to_cache(topic, limit, keywords)
Save(topic, limit, keywords, io) ==
    \E key \in {_get_cache_key(topic, limit)} :
        /\ nops < MaxOps
        /\ cache' = SaveToCache(cache, topic, limit, keywords, now, io)
        /\ stored' = TrackStored(stored, cache, key, io, topic, limit, keywords, now)
        /\ last' = [Idle EXCEPT !.op = "save", !.topic = topic, !.limit = limit,
                                !.io = io, !.given = keywords, !.wrote = io,
                                !.raised = OnWriteError(io),
                                !.pre = cache, !.at = now]
        /\ nops' = nops + 1
        /\ UNCHANGED <<procs, size>>
        /\ UNCHANGED now

\* one run of the command: the resolver, research_keywords, the exit code
Main(inv) ==
    \E key \in {_get_cache_key(inv.topic, inv.limit)},
       out \in {IF inv.resolver_raised
                THEN [result |-> None, raised |-> "resolver", files |-> cache,
                      afterGet |-> cache, hit |-> FALSE, requested |-> FALSE, posts |-> 0,
                      source |-> "none", caught |-> "none", wrote |-> "none",
                      sent |-> <<>>]
                ELSE research_keywords(cache, inv.topic, inv.limit, inv.api_key,
                                       inv.env, now, inv.io)} :
        /\ nops < MaxOps
        /\ cache' = out.files
        /\ stored' = TrackStored(stored, out.afterGet, key, out.wrote, inv.topic,
                                 inv.limit,
                                 IF out.result = None THEN <<>> ELSE out.result[1], now)
        /\ last' = [Idle EXCEPT !.op = "main", !.topic = inv.topic,
                                !.limit = inv.limit, !.api_key = inv.api_key,
                                !.env = inv.env, !.io = inv.io,
                                !.result = out.result, !.raised = out.raised,
                                !.exit = ExitCode(inv.resolver_raised, out),
                                !.hit = out.hit, !.requested = out.requested,
                                !.posts = out.posts,
                                !.source = out.source, !.caught = out.caught,
                                !.wrote = out.wrote, !.sent = out.sent,
                                !.pre = cache, !.at = now]
        /\ nops' = nops + 1
        /\ UNCHANGED <<procs, size>>
        /\ UNCHANGED now

GetStep == \E t \in CacheTopics, l \in CacheLimits : Get(t, l)

SaveStep ==
    \/ \E t \in CacheTopics, l \in CacheLimits, k \in RecordLists : Save(t, l, k, "ok")
    \/ \E io \in {"write_fails", "open_fails"} : Save(sA, 1, <<R2, R1>>, io)

MainStep == \E inv \in Invocations : Main(inv)

Next == MainStep \/ Tick

Spec == Init /\ [][Next]_vars

\* the cache alone, called directly
CacheInit ==
    /\ cache \in {NoFiles} \cup {With(NoFiles, _get_cache_key(sA, 1), f) : f \in PreFiles}
    /\ stored = NoStored
    /\ now = 0
    /\ last = Idle
    /\ nops = 0
    /\ procs = <<>>
    /\ size = 0

CacheNext == GetStep \/ SaveStep \/ Tick

SpecCache == CacheInit /\ [][CacheNext]_vars

(***************************************************************************)
(* Runs of research_keywords at the same time, for one key. Nothing        *)
(* coordinates them: each run is the sequence of its file operations, and  *)
(* the operations of different runs interleave freely.                     *)
(*                                                                         *)
(*   Lookup    get_cached_keywords reads the file (one read)               *)
(*   Truncate  the fetch, then open(cache_file, 'w'): the file is emptied  *)
(*   Dump      json.dump and the close of the file: the text, shorter than *)
(*             the 8192-character buffer, is written by one write at the   *)
(*             position of the run's own file handle, which is 0           *)
(***************************************************************************)
\* the number of characters json.dump(cache_data, f, indent=2) writes. A float
\* that is whole is counted without its ".0".
JsonLength(entry) ==
    LET Sum(f, n) ==
            LET total[i \in 0..n] == IF i = 0 THEN 0 ELSE total[i - 1] + f[i]
            IN  total[n]
        number(r) ==
            LET a == IF r < 0 THEN 0 - r ELSE r
            IN  (IF r < 0 THEN 1 ELSE 0) + Len(NatToStr(a \div 10))
                + (IF a % 10 = 0 THEN 0 ELSE 2)
        list(xs) ==
            IF xs = <<>> THEN 2
            ELSE 2 + Sum([i \in 1..Len(xs) |-> 10 + Len(xs[i])], Len(xs))
                   + 2 * (Len(xs) - 1) + 8
        record(d) ==
            141 + Len(d.keyword) + Len(IntToStr(d.search_volume))
                + Len(IntToStr(d.keyword_difficulty)) + list(d.related_keywords)
                + number(d.relevance_score)
        items == entry.kws.items
    IN  75 + Len(entry.topic) + Len(IntToStr(entry.limit))
        + (IF items = <<>> THEN 18
           ELSE 16 + Sum([i \in 1..Len(items) |-> record(items[i])], Len(items))
                + 2 * (Len(items) - 1) + 6)

\* the cache lookup of run p
Lookup(p) ==
    \E inv \in {procs[p].inv} :
    \E out \in {GetCached(cache, inv.topic, inv.limit, now)} :
        /\ procs[p].pc = "start"
        /\ cache' = out.files
        /\ procs' = [procs EXCEPT ![p].pc =
                        IF out.raised # "none" \/ (out.result # None /\ out.result[1] # <<>>)
                        THEN "done" ELSE "miss",
                      ![p].kws = IF out.result # None THEN out.result[1] ELSE <<>>]
        /\ UNCHANGED <<stored, now, last, nops, size>>

\* run p fetches; with records to save it opens the cache file for writing
Truncate(p) ==
    \E inv \in {procs[p].inv} :
    \E fetched \in {research_keywords(NoFiles, inv.topic, inv.limit, inv.api_key,
                                      inv.env, now, "ok").result[1]} :
        /\ procs[p].pc = "miss"
        /\ IF fetched = <<>>
           THEN /\ procs' = [procs EXCEPT ![p].pc = "done"]
                /\ UNCHANGED <<cache, size>>
           ELSE /\ procs' = [procs EXCEPT ![p].pc = "open", ![p].kws = fetched,
                                          ![p].at = now]
                /\ cache' = With(cache, _get_cache_key(inv.topic, inv.limit),
                                 TruncatedFile)
                /\ size' = 0
        /\ UNCHANGED <<stored, now, last, nops>>

\* run p writes its entry from position 0 and closes the file: what the file
\* held beyond the end of the entry stays, and json.load rejects it as extra data
Dump(p) ==
    \E inv \in {procs[p].inv} :
    \E entry \in {CacheData(inv.topic, inv.limit, procs[p].kws, procs[p].at)} :
        /\ procs[p].pc = "open"
        /\ cache' = With(cache, _get_cache_key(inv.topic, inv.limit),
                         IF JsonLength(entry) >= size THEN entry ELSE TruncatedFile)
        /\ size' = IF JsonLength(entry) >= size THEN JsonLength(entry) ELSE size
        /\ procs' = [procs EXCEPT ![p].pc = "done", ![p].wrote = TRUE]
        /\ UNCHANGED <<stored, now, last, nops>>

\* two runs for the key of ("a", 2), and gets of that key by a third process
RaceInit ==
    /\ cache = NoFiles
    /\ stored = NoStored
    /\ now = 0
    /\ last = Idle
    /\ nops = 0
    /\ procs \in [{1, 2} ->
          {[pc |-> "start", inv |-> inv, kws |-> <<>>, at |-> 0, wrote |-> FALSE] :
              inv \in {Invocation(FALSE, None, sA, 2, Quiet, "ok"),
                       Invocation(FALSE, None, <<"A", " ">>, 2, Quiet, "ok"),
                       Invocation(FALSE, Some(kGood), sA, 2,
                                  Env(TRUE, "none", GoodResponse), "ok"),
                       Invocation(FALSE, Some(kGood), sA, 2,
                                  Env(TRUE, "none", Response(20000, "list", <<>>)),
                                  "ok")}}]
    /\ size = 0

RaceNext ==
    \/ \E p \in DOMAIN procs : Lookup(p)
    \/ \E p \in DOMAIN procs : Truncate(p)
    \/ \E p \in DOMAIN procs : Dump(p)
    \/ Get(sA, 2)

SpecRace == RaceInit /\ [][RaceNext]_vars

\* one run of the command without a credential, on a cache that holds nothing
\* for its key: the command line is drawn at the start, and the run applies it
HeuristicTopics == {sKeyword, <<"a", " ", "b">>, <<"a", " ", "b", " ", "c">>, <<>>}

\* no credential, or one whose request times out
HeuristicKeys == {None, Some(kGood)}
HeuristicLimits == (0 - 1)..14

HeuristicInit ==
    /\ cache \in {NoFiles, With(NoFiles, _get_cache_key(sA, 2), TruncatedFile)}
    /\ stored = NoStored
    /\ now = 0
    /\ \E t \in HeuristicTopics, l \in HeuristicLimits, k \in HeuristicKeys :
          last = [Idle EXCEPT !.topic = t, !.limit = l, !.api_key = k,
                              !.env = Env(TRUE, "Timeout", NoReply)]
    /\ nops = 0
    /\ procs = <<>>
    /\ size = 0

HeuristicRun ==
    /\ last.op = "none"
    /\ Main(Invocation(FALSE, last.api_key, last.topic, last.limit, last.env, "ok"))

HeuristicNext == HeuristicRun \/ Tick

SpecHeuristic == HeuristicInit /\ [][HeuristicNext]_vars

\* the credential resolver alone: one call of get_api_key
CredentialSources ==
    {Sources(x, e, c, FALSE, Prompt("unavailable", <<>>)) :
        x \in {None} \cup {Some(t) : t \in Candidates},
        e \in {None} \cup {Some(t) : t \in {<<>>, cBlank, kGood, cNoColon}},
        c \in Configs}
    \cup {Sources(None, e, c, TRUE, p) :
            e \in {None, Some(cBlank)},
            c \in {NoConfig, Config("garbage", ConfigKey("missing", <<>>, 0)),
                   Config("object", ConfigKey("string", cBlank, 0)),
                   Config("object", ConfigKey("string", cLong, 0))},
            p \in Prompts}

CredentialInit ==
    /\ cache = NoFiles
    /\ stored = NoStored
    /\ now = 0
    /\ \E src \in CredentialSources : last = [Idle EXCEPT !.sources = src]
    /\ nops = 0
    /\ procs = <<>>
    /\ size = 0

\* a call of get_api_key(api_key, interactive)
Resolve ==
    \E out \in {get_api_key(last.sources)} :
        /\ last.op = "none"
        /\ nops < MaxOps
        /\ last' = [Idle EXCEPT !.op = "resolve", !.sources = last.sources,
                                !.api_key = out.result, !.raised = out.raised,
                                !.used = out.used]
        /\ nops' = nops + 1
        /\ UNCHANGED <<procs, size>>
        /\ UNCHANGED <<cache, stored, now>>

CredentialNext == Resolve

SpecCredential == CredentialInit /\ [][CredentialNext]_vars

\* the scorer alone: one run whose remote response carries one raw item
ScoreKeywords ==
    {[has |-> "missing", keyword |-> <<>>],
     [has |-> "present", keyword |-> sA],
     [has |-> "present", keyword |-> <<"A">>],
     [has |-> "present", keyword |-> <<"a", " ", "b">>],
     [has |-> "present", keyword |-> sB]}

ScoreVolumes ==
    {[has |-> "null", search_volume |-> 0]}
    \cup {[has |-> "present", search_volume |-> v] :
             v \in {100, 101, 1000, 1001, 10000, 10001}}

\* competition_index, competition and cpc (in hundredths) of a raw item
ScoreCompetitions ==
    {[index |-> "present", competition_index |-> i, label |-> "missing",
      competition |-> <<>>, cents |-> "missing", cpc |-> 0] :
        i \in {0, 40, 49, 50, 100, 150}}
    \cup {[index |-> i, competition_index |-> 0, label |-> l.has,
           competition |-> l.competition, cents |-> c.has, cpc |-> c.cpc] :
             i \in {"missing", "null"},
             l \in {[has |-> "null", competition |-> <<>>],
                    [has |-> "present", competition |-> sHIGH],
                    [has |-> "present", competition |-> <<"m", "e", "d", "i", "u", "m">>],
                    [has |-> "present", competition |-> sLOW],
                    [has |-> "present", competition |-> <<"n", "/", "a">>]},
             c \in {[has |-> "missing", cpc |-> 0]}
                   \cup {[has |-> "present", cpc |-> x] : x \in {0, 5, 150, 600, 700}}}

ScoreItem(k, v, c) ==
    [kind |-> "dict",
     has |-> [f \in ItemFields |->
                 CASE f = "keyword" -> k.has
                   [] f = "search_volume" -> v.has
                   [] f = "competition" -> c.label
                   [] f = "competition_index" -> c.index
                   [] f = "cpc" -> c.cents
                   [] OTHER -> "missing"],
     keyword |-> k.keyword,
     search_volume |-> v.search_volume,
     competition |-> c.competition,
     competition_index |-> c.competition_index,
     cpc |-> c.cpc,
     related_keywords |-> <<>>,
     extra |-> TRUE]

ScoreItems ==
    {ScoreItem(k, v, c) : k \in ScoreKeywords, v \in ScoreVolumes, c \in ScoreCompetitions}

ScoreTopics == {sA, <<"B", " ", "c">>}

ScoreInit ==
    /\ cache = NoFiles
    /\ stored = NoStored
    /\ now = 0
    /\ \E t \in ScoreTopics, item \in ScoreItems :
          last = [Idle EXCEPT !.topic = t,
                              !.env = Env(TRUE, "none",
                                          Response(20000, "list",
                                                   <<Task(20000, "list", <<item>>)>>))]
    /\ nops = 0
    /\ procs = <<>>
    /\ size = 0

ScoreRun ==
    /\ last.op = "none"
    /\ Main(Invocation(FALSE, Some(kGood), last.topic, 1, last.env, "ok"))

ScoreNext == ScoreRun

SpecScore == ScoreInit /\ [][ScoreNext]_vars

(***************************************************************************)
(* The sibling tools: the internal-link suggester (internal_linking.py)    *)
(* and the structure validator (validate_structure.py).                    *)
(*                                                                         *)
(* A path given on the command line is                                     *)
(*   "md"          a markdown file that can be read                        *)
(*   "unreadable"  a markdown file whose open() or read() raises           *)
(*   "missing"     a path at which there is nothing                        *)
(*   "other"       a file whose suffix is not .md                          *)
(*   "dir"         a directory; `inside` lists its markdown files in the   *)
(*                 order rglob yields them, each "md" or "unreadable"      *)
(***************************************************************************)
\* load_site_content: the number of pages loaded, and the positions of the
\* paths for which a warning was printed
load_site_content(content_paths) ==
    LET loaded(path) ==
            IF path.kind = "md" THEN 1
            ELSE IF path.kind = "dir"
                 THEN Cardinality({i \in 1..Len(path.inside) :
                          \A j \in 1..i : path.inside[j] = "md"})
                 ELSE 0
        raises(path) ==
            \/ path.kind = "unreadable"
            \/ path.kind = "dir" /\ \E j \in 1..Len(path.inside) : path.inside[j] # "md"
        count[i \in 0..Len(content_paths)] ==
            IF i = 0 THEN 0 ELSE count[i - 1] + loaded(content_paths[i])
    IN  [pages |-> count[Len(content_paths)],
         warned |-> {i \in 1..Len(content_paths) : raises(content_paths[i])}]

\* main of internal_linking.py: the exit code, whether an error about the draft
\* was printed, and the site paths for which a warning was printed.
\* site_content is None without --site-content.
internal_linking_main(draft, site_content) ==
    LET stop(d, w) == [exit |-> 1, draft_reported |-> d, warned |-> w]
        site == load_site_content(site_content[1])
    IN  IF draft = "missing" THEN stop(TRUE, {})
        ELSE IF draft = "unreadable" THEN stop(TRUE, {})
        ELSE IF site_content = None THEN stop(FALSE, {})
        ELSE IF site.pages = 0 THEN stop(FALSE, site.warned)
        ELSE [exit |-> 0, draft_reported |-> FALSE, warned |-> site.warned]

\* main of validate_structure.py, for len(sys.argv) = argc and a draft whose
\* validation gives `score`
validate_structure_main(argc, draft, score) ==
    IF argc # 2 THEN [exit |-> 1, draft_reported |-> FALSE, warned |-> {}]
    ELSE IF draft # "md" THEN [exit |-> 1, draft_reported |-> TRUE, warned |-> {}]
    ELSE [exit |-> IF score >= 60 THEN 0 ELSE 1, draft_reported |-> FALSE,
          warned |-> {}]

\* one run of one of the two tools: the command line is drawn at the start
ToolsInit ==
    /\ cache = NoFiles
    /\ stored = NoStored
    /\ now = 0
    /\ nops = 0
    /\ procs = <<>>
    /\ size = 0
    /\ LET Path(k, in) == [kind |-> k, inside |-> in]
           Paths == {Path("md", <<>>), Path("unreadable", <<>>), Path("missing", <<>>),
                     Path("other", <<>>), Path("dir", <<>>), Path("dir", <<"md">>),
                     Path("dir", <<"unreadable", "md">>),
                     Path("dir", <<"md", "unreadable">>)}
           Run(tool, argc, draft, site, score) ==
               [op |-> "none", tool |-> tool, argc |-> argc, draft |-> draft,
                site_content |-> site, score |-> score, exit |-> 0,
                draft_reported |-> FALSE, warned |-> {}]
       IN  \/ \E d \in {"md", "unreadable", "missing"},
                 sc \in {None, Some(<<>>)} \cup {Some(<<x>>) : x \in Paths}
                        \cup {Some(<<x, y>>) : x \in Paths, y \in Paths} :
                 last = Run("internal_linking", 0, d, sc, 0)
           \/ \E d \in {"md", "unreadable", "missing"}, n \in 1..3, sc \in {59, 60} :
                 last = Run("validate_structure", n, d, None, sc)

ToolsRun ==
    /\ last.op = "none"
    /\ \E out \in {IF last.tool = "internal_linking"
                    THEN internal_linking_main(last.draft, last.site_content)
                    ELSE validate_structure_main(last.argc, last.draft, last.score)} :
          last' = [last EXCEPT !.op = "tool", !.exit = out.exit,
                               !.draft_reported = out.draft_reported,
                               !.warned = out.warned]
    /\ UNCHANGED <<cache, stored, now, nops, procs, size>>

SpecTools == ToolsInit /\ [][ToolsRun]_vars

(***************************************************************************)
(* Properties of the result cache, checked under SpecCache.                *)
(*                                                                         *)
(* `last` describes the most recent call: its arguments, what it returned, *)
(* the store before it (last.pre) and the time of the call (last.at).      *)
(* `stored` remembers, per file, the arguments of the put that wrote it.   *)
(***************************************************************************)
LastKey == _get_cache_key(last.topic, last.limit)

Normalised(topic) == Strip(Lower(topic))

\* the file the last call found under its key
FoundFile == last.pre[LastKey]

HasFoundFile == LastKey \in DOMAIN last.pre

\* the file carries a readable timestamp older than the time to live
FoundExpired ==
    /\ HasFoundFile
    /\ FoundFile.kind = "object"
    /\ FoundFile.ts.kind = "iso"
    /\ last.at - FoundFile.ts.day > 30

\* the file is not what a successful put writes
Malformed(f) ==
    \/ f.kind # "object"
    \/ f.ts.kind # "iso"
    \/ f.kws.kind # "list"
    \/ \E i \in 1..Len(f.kws.items) : f.kws.items[i].fields # "exact"

\* C1: a get for the topic and limit of an earlier successful put, less than
\* 30 days after it and with no other write to the key in between, returns a
\* list equal, element by element and field by field, to the list that was put.
C1_RoundTrip ==
    last.op = "get" =>
        \A k \in DOMAIN stored :
            ( /\ stored[k].topic = last.topic
              /\ stored[k].limit = last.limit
              /\ last.at - stored[k].at < 30 )
            => /\ last.raised = "none"
               /\ last.result = Some(stored[k].keywords)

\* a list with a fractional relevance score read back a day or more later
C1_Witness ==
    /\ last.op = "get"
    /\ \E k \in DOMAIN stored :
          /\ stored[k].topic = last.topic
          /\ stored[k].limit = last.limit
          /\ last.at - stored[k].at > 0
          /\ last.at - stored[k].at < 30
          /\ stored[k].keywords = <<R2, R1>>
          /\ last.result = Some(<<R2, R1>>)

\* C2: a get on an entry whose timestamp is more than 30 days old returns
\* absent and removes the entry; a get on a key without an entry returns absent
\* and creates none, so the key stays absent until a put writes it again.
C2_ExpiredRemoved ==
    last.op = "get" =>
        /\ FoundExpired =>
              /\ last.result = None
              /\ last.raised = "none"
              /\ LastKey \notin DOMAIN cache
        /\ ~HasFoundFile =>
              /\ last.result = None
              /\ last.raised = "none"
        /\ DOMAIN cache \subseteq DOMAIN last.pre

\* an entry with keywords, found 31 days after its timestamp and removed
C2_Witness ==
    /\ last.op = "get"
    /\ FoundExpired
    /\ FoundFile.kws.items # <<>>
    /\ last.result = None
    /\ LastKey \notin DOMAIN cache

\* C3: whatever the file under the key contains (text that is not JSON, JSON
\* that is not an object, a missing or non-ISO timestamp, no 'keywords', a
\* record object with a missing or an extra member), get_cached_keywords returns
\* absent and raises nothing to its caller.
C3_GetFailsSoft ==
    (last.op = "get" /\ HasFoundFile /\ Malformed(FoundFile)) =>
        /\ last.raised = "none"
        /\ last.result = None

FoundWriter == stored[LastKey]

\* C5: the key depends only on the lower-cased, trimmed topic and the limit: a
\* get returns the records of a put whose normalised topic and limit are the
\* same (while the entry is within its time to live), and a get that returns
\* the records of a put was made with that put's normalised topic and limit.
C5_KeyIsolation ==
    last.op = "get" =>
        /\ \A k \in DOMAIN stored :
              ( /\ Normalised(stored[k].topic) = Normalised(last.topic)
                /\ stored[k].limit = last.limit
                /\ last.at - stored[k].at <= 30 )
              => last.result = Some(stored[k].keywords)
        /\ (last.hit /\ LastKey \in DOMAIN stored) =>
              /\ Normalised(FoundWriter.topic) = Normalised(last.topic)
              /\ FoundWriter.limit = last.limit

\* records put under one spelling of the topic are returned for another
C5_Witness ==
    /\ last.op = "get"
    /\ last.hit
    /\ LastKey \in DOMAIN stored
    /\ FoundWriter.topic # last.topic
    /\ Normalised(FoundWriter.topic) = Normalised(last.topic)
    /\ last.result = Some(<<R2, R1>>)

(***************************************************************************)
(* Properties of the pipeline, checked under Spec.                         *)
(***************************************************************************)
\* the last run got past the cache and fetched
Fetched == last.op = "main" /\ last.source \in {"heuristic", "remote"}

\* the remote call of the last run failed: the requests library is missing,
\* the credential is not of the form login:password, or the request raised
RemoteFailed ==
    \/ ~last.env.import_ok
    \/ Cardinality({i \in 1..Len(last.api_key[1]) : last.api_key[1][i] = ":"}) # 1
    \/ last.env.exc # "none"

HeuristicResult == _fallback_research(last.topic, last.limit)

RemoteResult == _parse_api_response(last.env.data, last.topic, last.limit)

\* C6: without a credential, or when the remote call fails for any reason, the
\* fetch raises nothing and returns exactly _fallback_research(topic, limit);
\* every fetched list is either the heuristic list or the list parsed from the
\* remote response, never a mix of the two.
C6_TotalFallback ==
    Fetched =>
        /\ last.raised = "none"
        /\ (last.api_key = None \/ RemoteFailed) => last.result = Some(HeuristicResult)
        /\ \/ last.result = Some(HeuristicResult)
           \/ /\ last.api_key # None
              /\ ~RemoteFailed
              /\ last.result = Some(RemoteResult)

\* a request that timed out was answered with the heuristic records
C6_Witness ==
    /\ Fetched
    /\ last.api_key = Some(kGood)
    /\ last.env.exc = "Timeout"
    /\ last.requested
    /\ last.result = Some(HeuristicResult)
    /\ HeuristicResult # <<>>

\* C7: when the remote call succeeds but parsing the body yields no record,
\* research_keywords returns the heuristic records instead of an empty list,
\* and the command does not fail because of the remote outcome.
C7_FallbackOnEmptyResponse ==
    (Fetched /\ last.source = "remote" /\ RemoteResult = <<>>) =>
        /\ last.result = Some(HeuristicResult)
        /\ HeuristicResult # <<>> => last.exit = 0

\* the body of the last run's response was parsed, and it is a JSON object
Parsed == Fetched /\ last.source = "remote" /\ last.env.data.kind = "dict"

NonSuccessStatus == last.env.data.status_code \notin {200, 20000}

\* C8 as stated: a response whose top-level status_code is neither 200 nor
\* 20000 parses to the empty list, whatever else it contains.
C8_NonSuccessEmpty ==
    (Parsed /\ NonSuccessStatus) => last.result = Some(<<>>)

\* the response has a task with status 20000 and a non-empty result
HasUsableTask ==
    /\ last.env.data.tasks.kind = "list"
    /\ \E i \in 1..Len(last.env.data.tasks.items) :
          LET task == last.env.data.tasks.items[i]
          IN  /\ task.kind = "dict"
              /\ task.status_code = 20000
              /\ task.result.kind \in {"list", "dict"}
              /\ task.result.items # <<>>

\* C8, amended: a response whose top-level status_code is neither 200 nor 20000
\* parses to the empty list unless it carries a task with status 20000 and a
\* non-empty result; the top-level status_code by itself is only reported.
C8_NonSuccessEmptyWithoutTask ==
    (Parsed /\ NonSuccessStatus /\ ~HasUsableTask) => last.result = Some(<<>>)

\* status 400 with a failed task that has result items: nothing is returned
C8_Witness ==
    /\ Parsed
    /\ last.env.data.status_code = 400
    /\ last.env.data.tasks.kind = "list"
    /\ last.env.data.tasks.items # <<>>
    /\ last.env.data.tasks.items[1].result.items # <<>>
    /\ last.result = Some(<<>>)

\* C9: the command exits with code 0 exactly when the pipeline produced at
\* least one record; an empty list and an exception both give a nonzero code.
C9_ExitCode ==
    last.op = "main" =>
        /\ last.exit = 0 <=>
              /\ last.raised = "none"
              /\ last.result # None
              /\ last.result[1] # <<>>
        /\ last.exit \in {0, 1}

\* a remote response without records: the run ends with code 1
C9_Witness ==
    /\ last.op = "main"
    /\ last.source = "remote"
    /\ last.raised = "none"
    /\ last.result = Some(<<>>)
    /\ last.exit = 1

(***************************************************************************)
(* Properties of the heuristic generator, checked under SpecHeuristic.     *)
(***************************************************************************)
VolumeTable(words) == IF words <= 2 THEN 5000 ELSE IF words = 3 THEN 2000 ELSE 800

DifficultyTable(words) == IF words <= 2 THEN 70 ELSE IF words = 3 THEN 55 ELSE 35

Scored ==
    /\ last.op = "main"
    /\ last.source = "remote"
    /\ last.result # None
    /\ Len(last.result[1]) = 1

RawItem == last.env.data.tasks.items[1].result.items[1]

ScoredRecord == last.result[1][1]

\* C11: every record the pipeline produces has a difficulty within [0,100],
\* whatever competition index, competition label and CPC the raw item has.
C11_DifficultyRange ==
    (last.op = "main" /\ last.result # None) =>
        \A i \in 1..Len(last.result[1]) :
            /\ last.result[1][i].keyword_difficulty >= 0
            /\ last.result[1][i].keyword_difficulty <= 100

\* C12: every record research_keywords returns, remote-scored or heuristic and
\* for every limit, has a relevance score within [0,100].
C12_RelevanceRange ==
    (last.op = "main" /\ last.result # None) =>
        \A i \in 1..Len(last.result[1]) :
            /\ last.result[1][i].relevance_score >= 0
            /\ last.result[1][i].relevance_score <= 1000

\* the raw item's values as the scorer reads them
RawHasIndex == RawItem.has["competition_index"] = "present"

RawLabel == Upper(IF RawItem.has["competition"] = "present" THEN RawItem.competition ELSE <<>>)

RawCents == IF RawItem.has["cpc"] = "present" THEN RawItem.cpc ELSE 0

RawVolume == IF RawItem.has["search_volume"] = "present" THEN RawItem.search_volume ELSE 0

Clamp100(x) == IF x < 0 THEN 0 ELSE IF x > 100 THEN 100 ELSE x

\* the integers nearest to n/100 (both neighbours when n/100 lies half-way)
Nearest(n) ==
    LET q == n \div 100
        r == n % 100
    IN  IF r < 50 THEN {q} ELSE IF r > 50 THEN {q + 1} ELSE {q, q + 1}

\* C13 as stated: the competition index verbatim when there is one; otherwise
\* v*0.7 + min(cpc*5, 30) rounded to the nearest integer and clamped to
\* [0,100], with v = 75 for HIGH, 50 for MEDIUM and for an unknown or missing
\* label (the statement names no value for LOW).
C13_DifficultyRounded ==
    Scored =>
        /\ RawHasIndex => ScoredRecord.keyword_difficulty = RawItem.competition_index
        /\ (~RawHasIndex /\ RawLabel # sLOW) =>
              \E n \in Nearest(70 * (IF RawLabel = sHIGH THEN 75 ELSE 50)
                                + Min(5 * RawCents, 3000)) :
                  ScoredRecord.keyword_difficulty = Clamp100(n)

\* C13, amended: the competition index verbatim when there is one; otherwise
\* v*0.7 + min(cpc*5, 30) truncated to an integer (int(), not round()) and
\* capped at 100, with v = 75 for HIGH, 50 for MEDIUM, 25 for LOW and 50 for an
\* unknown or missing label; a missing or null CPC counts as 0.
C13_DifficultyTruncated ==
    Scored =>
        /\ RawHasIndex => ScoredRecord.keyword_difficulty = RawItem.competition_index
        /\ ~RawHasIndex =>
              ScoredRecord.keyword_difficulty =
                  Min((70 * (CASE RawLabel = sHIGH -> 75
                               [] RawLabel = sMEDIUM -> 50
                               [] RawLabel = sLOW -> 25
                               [] OTHER -> 50)
                       + Min(5 * RawCents, 3000)) \div 100, 100)

\* label HIGH with a CPC of 0.05: 52.75 becomes 52
C13_Witness ==
    /\ Scored
    /\ ~RawHasIndex
    /\ RawLabel = sHIGH
    /\ RawCents = 5
    /\ ScoredRecord.keyword_difficulty = 52

\* the keyword and the topic as the match factor compares them
RawKeywordLower == Lower(IF RawItem.has["keyword"] = "present" THEN RawItem.keyword ELSE <<>>)

TopicLower == Lower(last.topic)

\* C14: relevance = min(100, V + (100 - difficulty)*0.3 + M), V being 30, 20,
\* 10 or 0 for a volume above 10000, 1000, 100 or not, and M being 40 for a
\* case-insensitive exact match, 30 when one contains the other, else 10;
\* hence an exact match with volume > 10000 and difficulty < 50 scores above 80.
C14_RelevanceFormula ==
    Scored =>
        LET d == ScoredRecord.keyword_difficulty
            V == IF RawVolume > 10000 THEN 30
                 ELSE IF RawVolume > 1000 THEN 20
                 ELSE IF RawVolume > 100 THEN 10 ELSE 0
            M == IF RawKeywordLower = TopicLower THEN 40
                 ELSE IF \/ Contains(RawKeywordLower, TopicLower)
                         \/ Contains(TopicLower, RawKeywordLower) THEN 30
                 ELSE 10
            tenths == 10 * V + 3 * (100 - d) + 10 * M
        IN  /\ ScoredRecord.relevance_score = (IF tenths > 1000 THEN 1000 ELSE tenths)
            /\ (M = 40 /\ RawVolume > 10000 /\ d < 50) =>
                  ScoredRecord.relevance_score > 800

\* an exact match in another case, volume 10001, difficulty 49: 85.3
C14_Witness ==
    /\ Scored
    /\ RawItem.keyword = <<"A">>
    /\ last.topic = sA
    /\ RawVolume = 10001
    /\ ScoredRecord.keyword_difficulty = 49
    /\ ScoredRecord.relevance_score = 853

(***************************************************************************)
(* Properties of the variation generator and the estimators, checked       *)
(* under SpecHeuristic.                                                    *)
(***************************************************************************)
\* the last run returned heuristic records
HeuristicReturned ==
    /\ last.op = "main"
    /\ last.source = "heuristic"
    /\ last.result # None

\* the bucket of a word count: 1 for up to two words, 2 for three, 3 for more
Bucket(w) == IF w <= 2 THEN 1 ELSE IF w = 3 THEN 2 ELSE 3

\* C15: with w the number of whitespace-separated words of the keyword, the
\* estimated volume is 5000, 2000 or 800 and the estimated difficulty 70, 55 or
\* 35 for w <= 2, w = 3 and w >= 4; both estimates come from the same bucket.
C15_HeuristicTable ==
    HeuristicReturned =>
        \A i \in 1..Len(last.result[1]) :
            LET r == last.result[1][i]
                b == Bucket(WordCount(r.keyword))
            IN  /\ r.search_volume = <<5000, 2000, 800>>[b]
                /\ r.keyword_difficulty = <<70, 55, 35>>[b]

\* records of two, three and four words in one result
C15_Witness ==
    /\ HeuristicReturned
    /\ Len(last.result[1]) = 13
    /\ WordCount(last.result[1][1].keyword) = 2
    /\ WordCount(last.result[1][2].keyword) = 3
    /\ last.result[1][3].keyword_difficulty = 35
    /\ last.result[1][3].search_volume = 800
    /\ WordCount(last.result[1][3].keyword) = 4
    /\ last.result[1][1].search_volume = 5000
    /\ last.result[1][2].keyword_difficulty = 55

\* the order of the variations as the statement lists it
StatedOrder(topic) ==
    <<topic,
      Sp(sBest, topic), Sp(sHowTo, topic), Sp(sWhatIs, topic), Sp(sGuideTo, topic),
      Sp(sTipsFor, topic),
      Sp(topic, sGuide), Sp(topic, sTips), Sp(topic, sForBeginners),
      Sp(topic, sExplained), Sp(topic, s2024),
      Sp(Sp(sBest, topic), sTips), Sp(sHowTo, topic)>>

IsPrefix(a, b) == Len(a) <= Len(b) /\ a = SubSeq(b, 1, Len(a))

ReturnedKeywords == [i \in 1..Len(last.result[1]) |-> last.result[1][i].keyword]

\* C16: _generate_variations returns at most 15 strings: the topic, the five
\* prefixed forms, the five suffixed forms, "best topic tips" and "how to
\* topic", in this order; the keywords sent to the remote API and the keywords
\* of the heuristic records are a prefix of that sequence.
C16_VariationOrder ==
    HeuristicReturned =>
        /\ Len(StatedOrder(last.topic)) <= 15
        /\ IsPrefix(ReturnedKeywords, StatedOrder(last.topic))
        /\ last.limit >= 13 => Len(ReturnedKeywords) = Len(StatedOrder(last.topic))
        /\ last.requested =>
              /\ IsPrefix(last.sent, StatedOrder(last.topic))
              /\ last.limit >= 7 => Len(last.sent) = Len(StatedOrder(last.topic))

\* limit 3 with a credential: six keywords were sent, three records returned
C16_Witness ==
    /\ HeuristicReturned
    /\ last.requested
    /\ last.topic = <<"a", " ", "b">>
    /\ last.limit = 3
    /\ Len(last.sent) = 6
    /\ last.sent[6] = <<"t", "i", "p", "s", " ", "f", "o", "r", " ", "a", " ", "b">>
    /\ Len(ReturnedKeywords) = 3
    /\ ReturnedKeywords[3] = <<"h", "o", "w", " ", "t", "o", " ", "a", " ", "b">>

\* C17: the sequence _generate_variations returns contains no string twice:
\* neither the keywords of the heuristic records nor the keywords sent to the
\* remote API repeat a variation.
C17_NoDuplicates ==
    HeuristicReturned =>
        /\ \A i, j \in 1..Len(ReturnedKeywords) :
              i # j => ReturnedKeywords[i] # ReturnedKeywords[j]
        /\ \A i, j \in 1..Len(last.sent) :
              i # j => last.sent[i] # last.sent[j]

(***************************************************************************)
(* Properties of the credential resolver, checked under SpecCredential.    *)
(***************************************************************************)
Resolved == last.op = "resolve" /\ last.raised = "none"

\* the candidates of the sources that supply a credential (a string that is
\* not blank), in the order explicit argument, environment, config file, prompt
SuppliedCandidates ==
    LET src == last.sources
        one(ok, text) == IF ok /\ Strip(text) # <<>> THEN <<text>> ELSE <<>>
    IN  one(src.explicit # None, IF src.explicit # None THEN src.explicit[1] ELSE <<>>)
        \o one(src.environ # None, IF src.environ # None THEN src.environ[1] ELSE <<>>)
        \o one(src.config.kind = "object" /\ src.config.api_key.kind = "string",
               src.config.api_key.text)
        \o one(src.interactive /\ src.prompt.kind = "text", src.prompt.text)

\* C18: get_api_key returns the credential of the first source that supplies
\* one, in the order explicit argument, environment variable, config file,
\* prompt (if allowed); it returns absent only when no source supplies one.
C18_CredentialPriority ==
    Resolved =>
        IF SuppliedCandidates = <<>> THEN last.api_key = None
        ELSE last.api_key = decode_base64_credentials(SuppliedCandidates[1])

\* the candidate that went through the decode step, surrounding blanks removed
UsedCandidate ==
    Strip(CASE last.used = "explicit" -> last.sources.explicit[1]
            [] last.used = "environ" -> last.sources.environ[1]
            [] last.used = "config" -> last.sources.config.api_key.text
            [] OTHER -> last.sources.prompt.text)

PlainCredentials == {kGood, cLong}

\* C19: the Base64 encoding of a credential login:secret decodes to that
\* credential; a candidate that is not valid Base64 is returned as it is; the
\* decoded form is used only when decoding succeeds and the decoded text
\* contains ":".
C19_DecodeStep ==
    (Resolved /\ last.used # "none" /\ last.api_key # None) =>
        /\ \A plain \in PlainCredentials :
              UsedCandidate = B64Encode(plain) => last.api_key = Some(plain)
        /\ ~B64Valid(UsedCandidate) => last.api_key = Some(UsedCandidate)
        /\ last.api_key # Some(UsedCandidate) =>
              /\ B64Valid(UsedCandidate)
              /\ Contains(last.api_key[1], <<":">>)

\* C20: whatever the explicit argument, the environment value and the content
\* of the config file are, get_api_key returns a credential or absent and no
\* exception escapes it.
C20_ResolverNeverRaises ==
    last.op = "resolve" => last.raised = "none"

(***************************************************************************)
(* Properties of one run and of runs that follow one another.              *)
(***************************************************************************)
\* C21: on a cache miss, whatever integer limit the command line gives and
\* whatever the remote API answers, research_keywords returns at most `limit`
\* records.
C21_LimitRespected ==
    (Fetched /\ last.result # None) => Len(last.result[1]) <= last.limit

\* what the last run would have returned had its write succeeded
ResultHadWriteSucceeded ==
    research_keywords(last.pre, last.topic, last.limit, last.api_key, last.env,
                      last.at, "ok").result

\* C22: when the write of the cache entry fails, nothing is raised, and the run
\* returns exactly the records it would have returned had the write succeeded.
C22_WriteFailsSoft ==
    (last.op = "main" /\ last.wrote \in {"open_fails", "write_fails"}) =>
        /\ last.raised = "none"
        /\ last.result # None
        /\ last.result = ResultHadWriteSucceeded

\* a run fetched two records, and its write failed after truncating the file
C22_Witness ==
    /\ last.op = "main"
    /\ last.wrote = "write_fails"
    /\ last.result # None
    /\ Len(last.result[1]) = 2
    /\ LastKey \in DOMAIN cache
    /\ cache[LastKey] = TruncatedFile

(***************************************************************************)
(* Properties of runs at the same time, checked under SpecRace.            *)
(***************************************************************************)
\* the runs that wrote the cache file and are over
Writers == {p \in DOMAIN procs : procs[p].pc = "done" /\ procs[p].wrote}

WrittenEntry(p) ==
    CacheData(procs[p].inv.topic, procs[p].inv.limit, procs[p].kws, procs[p].at)

\* C23: when two runs for the same key both miss, fetch and write, then in
\* every interleaving of their file operations the file left after both writes
\* is the complete entry of one of them; and a get at any moment returns
\* nothing or the complete record list of one finished write.
C23_LastWriteWins ==
    /\ Writers = {1, 2} =>
          /\ _get_cache_key(sA, 2) \in DOMAIN cache
          /\ \E p \in Writers : cache[_get_cache_key(sA, 2)] = WrittenEntry(p)
    /\ (last.op = "get" /\ last.result # None) =>
          \E p \in Writers : last.result = Some(procs[p].kws)

(***************************************************************************)
(* Properties of the sibling tools, checked under SpecTools.               *)
(***************************************************************************)
\* the site paths of the last run that cannot be read: nothing is there, or
\* the file or a file of the directory raises when read
UnreadableSitePaths ==
    IF last.tool # "internal_linking" \/ last.site_content = None THEN {}
    ELSE {i \in 1..Len(last.site_content[1]) :
            LET path == last.site_content[1][i]
            IN  \/ path.kind \in {"unreadable", "missing"}
                \/ path.kind = "dir" /\ \E j \in 1..Len(path.inside) :
                                           path.inside[j] = "unreadable"}

DraftGiven == last.tool = "internal_linking" \/ last.argc = 2

\* C24: in both tools, whenever the draft file or a site-content file given on
\* the command line cannot be read, the error is reported and the exit code is
\* not zero. (Every exit with code 1 prints an error first, so a run that ends
\* with code 1 counts as having reported.)
C24_LocalFileErrors ==
    last.op = "tool" =>
        /\ (DraftGiven /\ last.draft # "md") =>
              (last.draft_reported /\ last.exit # 0)
        /\ (last.draft = "md" /\ UnreadableSitePaths # {}) => last.exit # 0

(***************************************************************************)
(* Properties of the response parser and of the order of the output,       *)
(* checked under Spec.                                                      *)
(***************************************************************************)
\* the response of the last run carries one task, of status 20000, whose
\* result is a list
OneTaskParsed ==
    /\ Parsed
    /\ last.env.data.tasks.kind = "list"
    /\ Len(last.env.data.tasks.items) = 1
    /\ last.env.data.tasks.items[1].kind = "dict"
    /\ last.env.data.tasks.items[1].status_code = 20000
    /\ last.env.data.tasks.items[1].result.kind = "list"

\* the first `limit` items of that result that are dicts
FirstDictItems ==
    LET items == Take(last.env.data.tasks.items[1].result.items, last.limit)
    IN  {i \in 1..Len(items) : items[i].kind = "dict"}

\* C25: whichever of the six fields the dict items of the result lack or carry
\* as null, the parse raises nothing and yields one record for each of the
\* first `limit` dict items.
C25_FieldTolerance ==
    OneTaskParsed =>
        /\ last.raised = "none"
        /\ last.result # None
        /\ Len(last.result[1]) = Cardinality(FirstDictItems)

\* the relevance scores of a list never increase from one record to the next
Descending(keywords) ==
    \A i \in 1..(Len(keywords) - 1) :
        keywords[i].relevance_score >= keywords[i + 1].relevance_score

\* C26: every list research_keywords returns, whether parsed from a remote
\* response, produced by the heuristic path or read from the cache, is ordered
\* by non-increasing relevance score.
C26_SortedOutput ==
    (last.op = "main" /\ last.result # None) => Descending(last.result[1])

(***************************************************************************)
(* Properties of the remote call and of the cache across runs, checked     *)
(* under Spec.                                                             *)
(***************************************************************************)
\* C27: one run of research_keywords sends at most one remote request; it sends
\* none on a cache hit and none without a credential; and when the request
\* fails the run goes on to the heuristic list without sending another.
C27_OneShotRemote ==
    last.op = "main" =>
        /\ last.posts <= 1
        /\ (last.hit \/ ~api_available(last.api_key)) => last.posts = 0
        /\ (last.posts >= 1 /\ last.env.exc # "none") =>
              /\ last.posts = 1
              /\ last.source = "heuristic"
              /\ last.result = Some(HeuristicResult)

\* a request timed out, and the run returned the two heuristic records
C27_Witness ==
    /\ last.op = "main"
    /\ last.env.exc = "Timeout"
    /\ last.posts = 1
    /\ last.source = "heuristic"
    /\ last.result # None
    /\ Len(last.result[1]) = 2

\* the records of the file the last call found, as get_cached_keywords
\* rebuilds them
FoundRecords ==
    List([i \in 1..Len(FoundFile.kws.items) |-> FromDict(FoundFile.kws.items[i])])

\* C28: a run served from the cache returns the stored records and leaves the
\* cache as it was, so the timestamp of an entry is the time of its write
\* however often it is read; and an entry found more than 30 days after that
\* time is not served.
C28_HitLeavesCache ==
    last.op = "main" =>
        /\ last.hit =>
              /\ HasFoundFile
              /\ last.result = Some(FoundRecords)
              /\ cache = last.pre
              /\ last.at - FoundFile.ts.day <= 30
        /\ FoundExpired => ~last.hit

\* an entry written at day 0 is served at day 30 and is still as it was
C28_Witness ==
    /\ last.op = "main"
    /\ last.hit
    /\ last.at = 30
    /\ last.result = Some(<<R1, R2>>)
    /\ cache[LastKey].ts.day = 0

\* the topics of the model whose key is the key of the last run
SameKeyTopics == {t \in {sA, <<" ", "A">>} : _get_cache_key(t, last.limit) = LastKey}

\* the last run found, under its key, the entry an earlier run wrote for topic t
\* with the heuristic records, at most 30 days before
FoundHeuristicEntry(t) ==
    /\ HasFoundFile
    /\ _fallback_research(t, last.limit) # <<>>
    /\ FoundFile.ts.kind = "iso"
    /\ last.at - FoundFile.ts.day <= 30
    /\ FoundFile = CacheData(t, last.limit, _fallback_research(t, last.limit),
                             FoundFile.ts.day)

\* C29: once heuristic records are stored for a key, every call of
\* research_keywords for that key within 30 days returns them and sends no
\* remote request, whatever credential it holds and whatever the remote API
\* would answer.
C29_HeuristicEntryServed ==
    (last.op = "main" /\ last.raised # "resolver") =>
        \A t \in SameKeyTopics :
            FoundHeuristicEntry(t) =>
                /\ last.hit
                /\ last.posts = 0
                /\ last.result = Some(_fallback_research(t, last.limit))

\* a run with a well-formed credential and a remote API that answers is served
\* the heuristic records stored 30 days before
C29_Witness ==
    /\ last.op = "main"
    /\ last.api_key = Some(kGood)
    /\ last.env = Env(TRUE, "none", GoodResponse)
    /\ last.at = 30
    /\ FoundHeuristicEntry(sA)
    /\ last.hit
    /\ last.result = Some(_fallback_research(sA, 2))
    /\ last.result # Some(RemoteResult)

\* the number of ':' in the credential of the last run
Colons == Cardinality({i \in 1..Len(last.api_key[1]) : last.api_key[1][i] = ":"})

\* C30: a remote request is sent only for a credential with exactly one ':';
\* for a credential with none or with more than one, no request is sent and a
\* run that misses the cache returns the heuristic list.
C30_CredentialShapeGate ==
    (last.op = "main" /\ api_available(last.api_key)) =>
        /\ last.posts >= 1 => Colons = 1
        /\ (Colons # 1 /\ last.raised = "none" /\ ~last.hit) =>
              /\ last.posts = 0
              /\ last.source = "heuristic"
              /\ last.result = Some(HeuristicResult)

\* a credential with two ':' on an empty cache: no request, two heuristic records
C30_Witness ==
    /\ last.op = "main"
    /\ last.api_key = Some(kTwoColons)
    /\ ~last.hit
    /\ last.posts = 0
    /\ last.caught = "ValueError"
    /\ last.result = Some(HeuristicResult)
    /\ Len(HeuristicResult) = 2
====
